---- MODULE Spec2Model ----
(***************************************************************************)
(* Model of db/columns/base.py: the MathesarColumn entity, its copy        *)
(* constructor, its table context and the derived properties that query    *)
(* the live catalog through an engine.                                     *)
(***************************************************************************)
EXTENDS Integers, Sequences, FiniteSets, TLC

VARIABLES
    columns,   \* the MathesarColumn objects, in allocation order
    types,     \* the heap of type objects (sa_type instances) columns refer to
    catalog,   \* the live database: (name, schema) of each table -> its column layout
    registry,  \* DEFAULT_COLUMNS, populated at process start
    last,      \* the last operation performed and what it returned
    steps      \* the number of state-changing operations performed

vars == <<columns, types, catalog, registry, last, steps>>

----------------------------------------------------------------------------
\* Bounds of the model.

MaxCols == 3

MaxSteps == 4

----------------------------------------------------------------------------
\* Values.

\* Python's None, in an attribute slot.
None == "None"

\* What a property read or a collaborator call produces.
NoValue == [tag |-> "None"]
Raised == [tag |-> "Raise"]
Value(v) == [tag |-> "Value", v |-> v]

\* The engines a column can be bound to, and the dialect of each.
Engines == {"pg"}

\* The Table metadata objects of the process.
TableObjs == {"T1", "T2"}

TableName(t) == IF t = "T1" THEN "t1" ELSE "t2"

TableSchema(t) == "public"

TableKey(t) == <<TableName(t), TableSchema(t)>>

TableFullname(t) == TableSchema(t) \o "." \o TableName(t)

CatalogKeys == {TableKey(t) : t \in TableObjs}

\* The column layouts a catalog table can have: column names by ordinal.
Layouts == {<<"id", "price">>, <<"price", "id">>, <<"id">>}

ColumnNames == {"id", "price"}

\* Type classes and the Python-level scalar type of each.
PythonType(cls) ==
    CASE cls = "Integer" -> "int"
      [] cls = "BigInteger" -> "int"
      [] cls = "Numeric" -> "Decimal"
      [] cls = "String" -> "str"

IntegerType == [cls |-> "Integer", precision |-> None, scale |-> None]

NumericType == [cls |-> "Numeric", precision |-> "10", scale |-> "2"]

StringType == [cls |-> "String", precision |-> None, scale |-> None]

BigIntegerType == [cls |-> "BigInteger", precision |-> None, scale |-> None]

TypeDescriptors == {IntegerType, NumericType, StringType, BigIntegerType}

----------------------------------------------------------------------------
\* Foreign keys.

\* ForeignKey(colspec) built from a plain qualified name.
ForeignKey(fullname) == [live |-> FALSE, colspec |-> fullname, table |-> None, column |-> None]

\* ForeignKey(column object): holds the target table and column themselves.
ForeignKeyTo(t, colname) == [live |-> TRUE, colspec |-> None, table |-> t, column |-> colname]

\* fk.target_fullname
target_fullname(fk) ==
    IF fk.live
    THEN TableFullname(fk.table) \o "." \o fk.column
    ELSE fk.colspec

----------------------------------------------------------------------------
\* Collaborators (db.columns.defaults, db.*.operations.select, db.types).

\* The registry the process runs with.
StandardRegistry ==
    [n \in {"id"} |-> [type |-> "Integer", primary_key |-> TRUE, nullable |-> FALSE]]

\* The registries a process can be started with: templates may leave the
\* expected primary_key and nullable out.
Registries ==
    {StandardRegistry,
     [n \in {"id", "price"} |->
        IF n = "id" THEN [type |-> "Integer", nullable |-> FALSE]
        ELSE [type |-> "Numeric"]]}

\* inspect(engine).has_table(name, schema=schema)
has_table(engine, name, schema) == <<name, schema>> \in DOMAIN catalog

\* The opaque identifier of a catalog table.
Oid(name, schema) == <<"oid", name, schema>>

\* get_oid_from_table(name, schema, engine): the outcomes the call can have.
get_oid_from_table(name, schema, engine) ==
    IF engine = None THEN {Raised}
    ELSE IF has_table(engine, name, schema) THEN {Value(Oid(name, schema))}
    ELSE {NoValue, Raised}

Position(seq, x) ==
    IF \E i \in 1..Len(seq) : seq[i] = x
    THEN CHOOSE i \in 1..Len(seq) : seq[i] = x
    ELSE 0

\* get_column_index_from_name(table_oid, column_name, engine), table_oid an
\* outcome of get_oid_from_table.
get_column_index_from_name(table_oid, column_name, engine) ==
    IF table_oid = Raised \/ engine = None THEN Raised
    ELSE IF table_oid = NoValue THEN NoValue
    ELSE LET pos == Position(catalog[<<table_oid.v[2], table_oid.v[3]>>], column_name)
         IN  IF pos = 0 THEN NoValue ELSE Value(pos - 1)

\* The default the catalog holds for a column of a table.
CatalogDefault(column_name) == IF column_name = "price" THEN Value("0") ELSE NoValue

\* get_column_default(table_oid, column_index, engine), table_oid an outcome
\* of get_oid_from_table.
get_column_default(table_oid, column_index, engine) ==
    IF table_oid = Raised \/ column_index = Raised \/ engine = None THEN Raised
    ELSE IF table_oid = NoValue \/ column_index = NoValue THEN NoValue
    ELSE CatalogDefault(catalog[<<table_oid.v[2], table_oid.v[3]>>][column_index.v + 1])

\* The cast map of a dialect: source type name -> target type names, as listed.
get_full_cast_map(engine) ==
    [n \in {"INTEGER", "NUMERIC", "VARCHAR"} |->
        CASE n = "INTEGER" -> <<"VARCHAR", "BIGINT", "NUMERIC", "VARCHAR">>
          [] n = "NUMERIC" -> <<"VARCHAR", "INTEGER">>
          [] n = "VARCHAR" -> <<>>]

\* The order of type names (Python's order of str).
SortedTypeNames == <<"BIGINT", "INTEGER", "NUMERIC", "VARCHAR">>

Rank(n) == Position(SortedTypeNames, n)

\* The dialect's compiler applied to a type object.
compile(type, dialect) ==
    LET base == CASE type.cls = "Integer" -> "INTEGER"
                  [] type.cls = "BigInteger" -> "BIGINT"
                  [] type.cls = "Numeric" -> "NUMERIC"
                  [] type.cls = "String" -> "VARCHAR"
    IN  IF type.precision = None THEN base
        ELSE IF type.scale = None THEN base \o "(" \o type.precision \o ")"
        ELSE base \o "(" \o type.precision \o ", " \o type.scale \o ")"

\* type.__class__(): a fresh instance of the class, built with no arguments.
BareInstance(type) == [cls |-> type.cls, precision |-> None, scale |-> None]

----------------------------------------------------------------------------
\* Python built-ins.

Range(seq) == {seq[i] : i \in 1..Len(seq)}

\* sorted(list(S)) for a set S of type names.
RECURSIVE sorted(_)
sorted(S) ==
    IF S = {} THEN <<>>
    ELSE LET m == CHOOSE x \in S : \A y \in S : Rank(x) <= Rank(y)
         IN  <<m>> \o sorted(S \ {m})

\* d.get(key, default)
DictGet(d, key, default) == IF key \in DOMAIN d THEN d[key] ELSE default

----------------------------------------------------------------------------
\* MathesarColumn.

Unset == "Unset"

\* __init__
MathesarColumn(name, sa_type, foreign_keys, primary_key, nullable, server_default) ==
    [engine |-> None,
     foreign_keys |-> foreign_keys,
     name |-> name,
     type |-> sa_type,
     primary_key |-> primary_key,
     nullable |-> nullable,
     server_default |-> server_default,
     table |-> None,
     original_table |-> Unset]

\* A copy that keeps the engine of its source.
from_column_keeps_engine(column) ==
    [MathesarColumn(column.name, column.type,
                    {ForeignKey(target_fullname(fk)) : fk \in column.foreign_keys},
                    column.primary_key, column.nullable, column.server_default)
        EXCEPT !.original_table = column.table, !.engine = column.engine]

\* A copy that takes the foreign key objects of its source as they are.
from_column_shares_fkeys(column) ==
    [MathesarColumn(column.name, column.type, column.foreign_keys,
                    column.primary_key, column.nullable, column.server_default)
        EXCEPT !.original_table = column.table]

\* from_column
from_column(column) ==
    LET fkeys == {ForeignKey(target_fullname(fk)) : fk \in column.foreign_keys}
        new_column == MathesarColumn(column.name, column.type, fkeys,
                                     column.primary_key, column.nullable,
                                     column.server_default)
    IN  [new_column EXCEPT !.original_table = column.table]

\* table_ with the original table looked at first.
table_original_first(self) ==
    IF self.original_table # Unset /\ self.original_table # None
    THEN self.original_table
    ELSE self.table

\* table_
table_(self) ==
    IF self.table # None THEN self.table
    ELSE IF self.original_table # Unset /\ self.original_table # None
         THEN self.original_table
    ELSE None

\* is_default with a template's missing nullable taken as False.
is_default_nullable_false(self) ==
    /\ self.name \in DOMAIN registry
    /\ LET default_def == registry[self.name]
       IN  /\ PythonType(types[self.type].cls) = PythonType(default_def.type)
           /\ self.primary_key = DictGet(default_def, "primary_key", FALSE)
           /\ self.nullable = DictGet(default_def, "nullable", FALSE)

\* is_default
is_default(self) ==
    /\ self.name \in DOMAIN registry
    /\ LET default_def == registry[self.name]
       IN  /\ PythonType(types[self.type].cls) = PythonType(default_def.type)
           /\ self.primary_key = DictGet(default_def, "primary_key", FALSE)
           /\ self.nullable = DictGet(default_def, "nullable", TRUE)

\* plain_type
plain_type(self) == compile(BareInstance(types[self.type]), self.engine)

\* valid_target_types returning the cast map's list as it is.
valid_target_types_as_listed(self) ==
    IF self.engine # None /\ ~is_default(self)
    THEN LET db_type == plain_type(self)
             targets == DictGet(get_full_cast_map(self.engine), db_type, <<>>)
         IN  IF targets # <<>> THEN Value(targets) ELSE NoValue
    ELSE NoValue

\* valid_target_types
valid_target_types(self) ==
    IF self.engine # None /\ ~is_default(self)
    THEN LET db_type == plain_type(self)
             targets == sorted(Range(DictGet(get_full_cast_map(self.engine), db_type, <<>>)))
         IN  IF targets # <<>> THEN Value(targets) ELSE NoValue
    ELSE NoValue

\* column_index without the existence check.
column_index_unchecked(self) ==
    IF self.engine # None /\ table_(self) # None
    THEN {get_column_index_from_name(table_oid, self.name, self.engine) :
            table_oid \in get_oid_from_table(TableName(table_(self)),
                                             TableSchema(table_(self)), self.engine)}
    ELSE {NoValue}

\* column_index: the outcomes the read can have.
column_index(self) ==
    IF /\ self.engine # None
       /\ table_(self) # None
       /\ has_table(self.engine, TableName(table_(self)), TableSchema(table_(self)))
    THEN {get_column_index_from_name(table_oid, self.name, self.engine) :
            table_oid \in get_oid_from_table(TableName(table_(self)),
                                             TableSchema(table_(self)), self.engine)}
    ELSE {NoValue}

\* default_value looking at the attached table alone.
default_value_attached_only(self) ==
    IF self.table # None
    THEN {get_column_default(table_oid, index, self.engine) :
            table_oid \in get_oid_from_table(TableName(self.table),
                                             TableSchema(self.table), self.engine),
            index \in column_index(self)}
    ELSE {NoValue}

\* default_value: the outcomes the read can have.
default_value(self) ==
    IF table_(self) # None
    THEN {get_column_default(table_oid, index, self.engine) :
            table_oid \in get_oid_from_table(TableName(table_(self)),
                                             TableSchema(table_(self)), self.engine),
            index \in column_index(self)}
    ELSE {NoValue}

\* type_options
type_options(self) ==
    LET t == types[self.type]
        keys == {k \in {"precision", "scale"} : t[k] # None}
    IN  IF keys # {} THEN Value([k \in keys |-> t[k]]) ELSE NoValue


----------------------------------------------------------------------------
\* Operations on the entity.

Cols == 1..Len(columns)

\* A state-changing operation: counted, and recorded as the last one.
Performed(op, col, val) ==
    /\ steps < MaxSteps
    /\ steps' = steps + 1
    /\ last' = [op |-> op, col |-> col, val |-> val]

\* A property read: what it returned is recorded.
Returned(prop, col, val) ==
    /\ last' = [op |-> prop, col |-> col, val |-> val]
    /\ UNCHANGED steps

\* The arguments columns are constructed with.
CreateArgs ==
    {[name |-> "id", type |-> IntegerType, foreign_keys |-> {},
      primary_key |-> TRUE, nullable |-> FALSE, server_default |-> None],
     [name |-> "price", type |-> NumericType,
      foreign_keys |-> {ForeignKeyTo("T2", "id")},
      primary_key |-> FALSE, nullable |-> TRUE, server_default |-> "0"],
     [name |-> "price", type |-> StringType,
      foreign_keys |-> {ForeignKey("public.t2.id")},
      primary_key |-> FALSE, nullable |-> TRUE, server_default |-> None]}

Create(a) ==
    /\ Len(columns) < MaxCols
    /\ types' = Append(types, a.type)
    /\ columns' = Append(columns,
            MathesarColumn(a.name, Len(types) + 1, a.foreign_keys,
                           a.primary_key, a.nullable, a.server_default))
    /\ Performed("create", Len(columns) + 1, NoValue)
    /\ UNCHANGED <<catalog, registry>>

Copy(s) ==
    /\ Len(columns) < MaxCols
    /\ columns' = Append(columns, from_column(columns[s]))
    /\ Performed("from_column", s, Value(Len(columns) + 1))
    /\ UNCHANGED <<types, catalog, registry>>

\* add_engine
add_engine(self, engine) == [self EXCEPT !.engine = engine]

AddEngine(c, e) ==
    /\ columns' = [columns EXCEPT ![c] = add_engine(@, e)]
    /\ Performed("add_engine", c, NoValue)
    /\ UNCHANGED <<types, catalog, registry>>

\* Table.append_column(column): the column becomes attached.
Attach(c, t) ==
    /\ columns[c].table = None
    /\ columns' = [columns EXCEPT ![c].table = t]
    /\ Performed("attach", c, NoValue)
    /\ UNCHANGED <<types, catalog, registry>>

\* The column's table attribute is reset.
Detach(c) ==
    /\ columns[c].table # None
    /\ columns' = [columns EXCEPT ![c].table = None]
    /\ Performed("detach", c, NoValue)
    /\ UNCHANGED <<types, catalog, registry>>

\* Assignments a caller makes to a column it holds.
SetName(c, n) ==
    /\ columns[c].name # n
    /\ columns' = [columns EXCEPT ![c].name = n]
    /\ Performed("assign", c, NoValue)
    /\ UNCHANGED <<types, catalog, registry>>

SetPrimaryKey(c, b) ==
    /\ columns[c].primary_key # b
    /\ columns' = [columns EXCEPT ![c].primary_key = b]
    /\ Performed("assign", c, NoValue)
    /\ UNCHANGED <<types, catalog, registry>>

SetNullable(c, b) ==
    /\ columns[c].nullable # b
    /\ columns' = [columns EXCEPT ![c].nullable = b]
    /\ Performed("assign", c, NoValue)
    /\ UNCHANGED <<types, catalog, registry>>

SetServerDefault(c, d) ==
    /\ columns[c].server_default # d
    /\ columns' = [columns EXCEPT ![c].server_default = d]
    /\ Performed("assign", c, NoValue)
    /\ UNCHANGED <<types, catalog, registry>>

AddForeignKey(c, fk) ==
    /\ fk \notin columns[c].foreign_keys
    /\ columns' = [columns EXCEPT ![c].foreign_keys = @ \cup {fk}]
    /\ Performed("assign", c, NoValue)
    /\ UNCHANGED <<types, catalog, registry>>

\* column.type.precision = p: an assignment to the type object the column holds.
SetTypePrecision(c, p) ==
    /\ types[columns[c].type].precision \notin {None, p}
    /\ types' = [types EXCEPT ![columns[c].type].precision = p]
    /\ Performed("assign", c, NoValue)
    /\ UNCHANGED <<columns, catalog, registry>>

\* Any of the assignments, to column c.
Assign(c) ==
    \/ \E n \in ColumnNames : SetName(c, n)
    \/ \E b \in BOOLEAN : SetPrimaryKey(c, b)
    \/ \E b \in BOOLEAN : SetNullable(c, b)
    \/ \E d \in {None, "0"} : SetServerDefault(c, d)
    \/ AddForeignKey(c, ForeignKey("public.t1.id"))
    \/ SetTypePrecision(c, "5")

----------------------------------------------------------------------------
\* Changes of the live catalog.

DropTable(k) ==
    /\ k \in DOMAIN catalog
    /\ catalog' = [j \in DOMAIN catalog \ {k} |-> catalog[j]]
    /\ Performed("drop_table", 0, NoValue)
    /\ UNCHANGED <<columns, types, registry>>

CreateTable(k, layout) ==
    /\ k \notin DOMAIN catalog
    /\ catalog' = [j \in DOMAIN catalog \cup {k} |-> IF j = k THEN layout ELSE catalog[j]]
    /\ Performed("create_table", 0, NoValue)
    /\ UNCHANGED <<columns, types, registry>>

ReorderColumns(k, layout) ==
    /\ k \in DOMAIN catalog
    /\ catalog[k] # layout
    /\ Range(catalog[k]) = Range(layout)
    /\ catalog' = [catalog EXCEPT ![k] = layout]
    /\ Performed("reorder", 0, NoValue)
    /\ UNCHANGED <<columns, types, registry>>

----------------------------------------------------------------------------
\* Reads of the derived properties.

ReadTable_(c) ==
    /\ Returned("table_", c, Value(table_(columns[c])))
    /\ UNCHANGED <<columns, types, catalog, registry>>

ReadIsDefault(c) ==
    /\ Returned("is_default", c, Value(is_default(columns[c])))
    /\ UNCHANGED <<columns, types, catalog, registry>>

ReadValidTargetTypes(c) ==
    /\ Returned("valid_target_types", c, valid_target_types(columns[c]))
    /\ UNCHANGED <<columns, types, catalog, registry>>

ReadColumnIndex(c) ==
    /\ \E v \in column_index(columns[c]) : Returned("column_index", c, v)
    /\ UNCHANGED <<columns, types, catalog, registry>>

ReadDefaultValue(c) ==
    /\ \E v \in default_value(columns[c]) : Returned("default_value", c, v)
    /\ UNCHANGED <<columns, types, catalog, registry>>

ReadTypeOptions(c) ==
    /\ Returned("type_options", c, type_options(columns[c]))
    /\ UNCHANGED <<columns, types, catalog, registry>>

----------------------------------------------------------------------------
\* The lifecycle of columns against a live catalog.

Started == [op |-> "start", col |-> 0, val |-> NoValue]

Init ==
    /\ columns = <<>>
    /\ types = <<>>
    /\ catalog \in [CatalogKeys -> {<<"id", "price">>}]
    /\ registry = StandardRegistry
    /\ last = Started
    /\ steps = 0

Next ==
    \/ \E a \in CreateArgs : Create(a)
    \/ \E s \in Cols : Copy(s)
    \/ \E c \in Cols, e \in Engines : AddEngine(c, e)
    \/ \E c \in Cols, t \in TableObjs : Attach(c, t)
    \/ \E c \in Cols : Detach(c)
    \/ \E c \in Cols : Assign(c)
    \/ \E k \in CatalogKeys : DropTable(k)
    \/ \E k \in CatalogKeys, l \in Layouts : CreateTable(k, l)
    \/ \E k \in CatalogKeys, l \in Layouts : ReorderColumns(k, l)
    \/ \E c \in Cols : ReadTable_(c)
    \/ \E c \in Cols : ReadValidTargetTypes(c)
    \/ \E c \in Cols : ReadColumnIndex(c)
    \/ \E c \in Cols : ReadDefaultValue(c)

Spec == Init /\ [][Next]_vars

----------------------------------------------------------------------------
\* One column of any name, type and flags, under any registry: the
\* classifier, the cast resolver and the type options.

InitProps ==
    /\ \E n \in ColumnNames, pk \in BOOLEAN, nullable \in BOOLEAN :
          columns = <<MathesarColumn(n, 1, {}, pk, nullable, None)>>
    /\ \E t \in TypeDescriptors : types = <<t>>
    /\ catalog \in [CatalogKeys -> {<<"id", "price">>}]
    /\ registry \in Registries
    /\ last = Started
    /\ steps = 0

NextProps ==
    \/ \E c \in Cols, e \in Engines : AddEngine(c, e)
    \/ \E c \in Cols, t \in TableObjs : Attach(c, t)
    \/ \E c \in Cols : Detach(c)
    \/ \E c \in Cols : ReadIsDefault(c)
    \/ \E c \in Cols : ReadValidTargetTypes(c)
    \/ \E c \in Cols : ReadTypeOptions(c)

SpecProps == InitProps /\ [][NextProps]_vars

----------------------------------------------------------------------------
\* Properties.

\* The column the last operation was about, and the copy a from_column made.
Subject == columns[last.col]

Made == columns[last.val.v]

\* The table context of a column, as the entity holds it.
Attached(c) == c.table

Historical(c) == IF c.original_table \in TableObjs THEN c.original_table ELSE None

EffectiveTable(c) == IF Attached(c) # None THEN Attached(c) ELSE Historical(c)

InCatalog(t) == TableKey(t) \in DOMAIN catalog

LiveProperties == {"valid_target_types", "column_index", "default_value"}

\* C1: a read of valid_target_types, column_index or default_value on a column
\* with no engine returns the absent result, in every table context; it never
\* fails and never makes a call that fails for lack of a connection.
C1_EngineLessReadIsAbsent ==
    (last.op \in LiveProperties /\ Subject.engine = None) => last.val = NoValue

\* C2: from_column(source) gives the copy the table context
\* Historical(effective table of the source) when the source has an effective
\* table and None otherwise, also for a source whose only table is historical.
C2_CopyKeepsEffectiveTable ==
    last.op = "from_column" =>
        /\ Attached(Made) = None
        /\ Historical(Made) = EffectiveTable(Subject)

\* C3: the column from_column(c0) makes is a new, detached column with the
\* name, type, primary_key, nullable and default clause of c0, no attached
\* table and no engine, whatever the state of c0.
C3_CopyReplicatesDefinition ==
    last.op = "from_column" =>
        /\ last.val.v = Len(columns)
        /\ last.val.v # last.col
        /\ Made.name = Subject.name
        /\ types[Made.type] = types[Subject.type]
        /\ Made.primary_key = Subject.primary_key
        /\ Made.nullable = Subject.nullable
        /\ Made.server_default = Subject.server_default
        /\ Attached(Made) = None
        /\ Made.engine = None

\* C3, reached: a copy was made of an attached column with an engine and a default.
C3_CopyOfBoundAttachedColumn ==
    /\ last.op = "from_column"
    /\ Subject.engine # None
    /\ Attached(Subject) # None
    /\ Subject.server_default # None
    /\ Made.engine = None

\* C4: after c = from_column(c0), an assignment to c (its name, flags, default
\* clause, foreign keys, the parameters of its type) or binding an engine to c
\* changes no attribute of c0 and no parameter of the type of c0.
C4_MutatingCopyLeavesSource ==
    [][\A c0 \in Cols, c \in Cols :
        ( /\ last.op = "from_column"
          /\ last.col = c0
          /\ last.val = Value(c)
          /\ (Assign(c) \/ \E e \in Engines : AddEngine(c, e)) )
        => /\ columns'[c0] = columns[c0]
           /\ types'[columns[c0].type] = types[columns[c0].type]]_vars

\* The list is strictly ascending in the order of type names.
StrictlyAscending(list) ==
    \A i \in 1..Len(list), j \in 1..Len(list) : i < j => Rank(list[i]) < Rank(list[j])

\* The bare name of a type class in the dialect.
BareName(cls) ==
    CASE cls = "Integer" -> "INTEGER"
      [] cls = "BigInteger" -> "BIGINT"
      [] cls = "Numeric" -> "NUMERIC"
      [] cls = "String" -> "VARCHAR"

\* The targets the cast map of the engine holds for a type name.
CastTargets(engine, name) ==
    IF name \in DOMAIN get_full_cast_map(engine)
    THEN Range(get_full_cast_map(engine)[name])
    ELSE {}

\* The template of the registry for a name gives these expectations.
Expected(template, key, default) ==
    IF key \in DOMAIN template THEN template[key] ELSE default

IsDefaultColumn(c) ==
    \E n \in DOMAIN registry :
        /\ n = c.name
        /\ PythonType(types[c.type].cls) = PythonType(registry[n].type)
        /\ c.primary_key = Expected(registry[n], "primary_key", FALSE)
        /\ c.nullable = Expected(registry[n], "nullable", TRUE)

\* C5: valid_target_types is absent when the engine is unset or is_default is
\* true; otherwise it is the strictly ascending list of the targets the cast map
\* holds for the bare type name, and absent (never an empty list) when the map
\* has no entry or an empty entry for that name.
C5_ValidTargetTypes ==
    last.op = "valid_target_types" =>
        LET targets == CastTargets(Subject.engine, BareName(types[Subject.type].cls))
        IN  IF Subject.engine = None \/ IsDefaultColumn(Subject) \/ targets = {}
            THEN last.val = NoValue
            ELSE /\ last.val.tag = "Value"
                 /\ StrictlyAscending(last.val.v)
                 /\ Range(last.val.v) = targets

\* C5, reached: the sorted targets of a type that carries parameters.
C5_SortedTargetsOfParameterisedType ==
    /\ last.op = "valid_target_types"
    /\ types[Subject.type] = NumericType
    /\ last.val = Value(<<"INTEGER", "VARCHAR">>)

\* The ordinal the catalog reports for a column name of a table it holds.
CatalogOrdinal(t, name) ==
    get_column_index_from_name(Value(Oid(TableName(t), TableSchema(t))), name, "pg")

\* C6: at every read column_index is absent unless the engine is bound, the
\* effective table is present and a table of its (name, schema) is in the
\* catalog at that time; then it is the ordinal the catalog reports now for the
\* column name.  Nothing is kept from an earlier read.
C6_ColumnIndex ==
    last.op = "column_index" =>
        last.val = IF /\ Subject.engine # None
                      /\ EffectiveTable(Subject) # None
                      /\ InCatalog(EffectiveTable(Subject))
                   THEN CatalogOrdinal(EffectiveTable(Subject), Subject.name)
                   ELSE NoValue

\* C6, reached: a read with an engine and an effective table not in the catalog.
C6_ReadAfterDropIsAbsent ==
    /\ last.op = "column_index"
    /\ Subject.engine # None
    /\ EffectiveTable(Subject) # None
    /\ ~InCatalog(EffectiveTable(Subject))
    /\ last.val = NoValue

\* What the default-value lookup returns for the effective table of a column
\* and the column_index passed through to it.
DefaultLookup(c) ==
    {get_column_default(table_oid, index, c.engine) :
        table_oid \in get_oid_from_table(TableName(EffectiveTable(c)),
                                         TableSchema(EffectiveTable(c)), c.engine),
        index \in column_index(c)}

C8_IsDefault ==
    last.op = "is_default" => last.val = Value(IsDefaultColumn(Subject))

\* C8, reached: a default column by a template that gives no flags, bound and attached.
C8_DefaultByOmittedExpectations ==
    /\ last.op = "is_default"
    /\ last.val = Value(TRUE)
    /\ Subject.name = "price"
    /\ DOMAIN registry["price"] = {"type"}
    /\ Subject.engine # None
    /\ Attached(Subject) # None

\* C9: table_ is the attached table when there is one, else the historical
\* table when there is one, else absent; with both, the attached one; and
\* add_engine does not change it.
C9_EffectiveTable ==
    [][ /\ last'.op = "table_" =>
            last'.val = Value(EffectiveTable(columns'[last'.col]))
        /\ last'.op = "add_engine" =>
            table_(columns'[last'.col]) = table_(columns[last'.col]) ]_vars

\* C9, reached: table_ read with an attached and a different historical table.
C9_AttachedOverHistorical ==
    /\ last.op = "table_"
    /\ Attached(Subject) # None
    /\ Historical(Subject) # None
    /\ Attached(Subject) # Historical(Subject)
    /\ last.val = Value(Attached(Subject))

\* C10: the copy of a column with foreign keys holds exactly the qualified
\* target names of the source's foreign keys, as plain names and not as
\* references to the target table or column, also after the target table was
\* dropped.
C10_CopyHoldsForeignKeyNames ==
    last.op = "from_column" =>
        /\ {target_fullname(fk) : fk \in Made.foreign_keys}
             = {target_fullname(fk) : fk \in Subject.foreign_keys}
        /\ \A fk \in Made.foreign_keys :
             ~fk.live /\ fk.table = None /\ fk.column = None

\* C10, reached: a copy made after the foreign key's target table was dropped.
C10_CopyAfterTargetDropped ==
    /\ last.op = "from_column"
    /\ ForeignKeyTo("T2", "id") \in Subject.foreign_keys
    /\ ~InCatalog("T2")
    /\ Made.foreign_keys = {ForeignKey("public.t2.id")}

====
